---- MODULE Spec2Model ----
(***************************************************************************)
(* The deployment workflow engine of the backend:                          *)
(*   app/services/deployment_service.py  (DeploymentService)               *)
(*   app/services/workflow_service.py    (WorkflowService)                 *)
(* with the approve route that triggers it (app/api/chaincodes.py), the    *)
(* rate limiter in front of the routes (app/middleware/rate_limit.py) and  *)
(* the rooms of the socket service (app/services/websocket_service.py).    *)
(*                                                                         *)
(* State is the durable store (chaincode and deployment rows) plus the     *)
(* position of every execute_deployment task.  A task advances between     *)
(* database commits and between the awaits of the gateway client, so       *)
(* every state of the model is one that another task, another worker or a  *)
(* reader of the store can observe.                                        *)
(***************************************************************************)
EXTENDS Integers, Sequences, FiniteSets, TLC

(***************************************************************************)
(* Bounds of the model.                                                    *)
(***************************************************************************)
MaxDeployments == 1
MaxTasks == 2
MaxFaults == 1
MaxTime == 4

(***************************************************************************)
(* Program constants.                                                      *)
(***************************************************************************)
max_retries == 3

None == "None"
NoDate == 0

(* the first value of the clock *)
Epoch == 1

Chaincodes == {"cc1", "cc2"}
Tasks == 1..MaxTasks

(* the chaincode ids a request can name: the stored ones and an unknown one *)
ChaincodeIds == Chaincodes \cup {"cc0"}

(* the target_peers lists a caller can pass to create_deployment; the      *)
(* callers of this repository pass a non-empty list only: the /deploy      *)
(* route validates it (ChaincodeDeploy.validate_target_peers) and the      *)
(* approve route schedules a deployment only `if default_peers`            *)
PeerLists == {<<>>, <<"peer0.org1:7051", "peer0.org2:9051">>}
ValidPeerLists == {p \in PeerLists : p # <<>>}

Steps == <<"package", "install", "approve", "commit">>

(* the bodies a gateway answers a non-200 request with, and the texts of   *)
(* the exceptions the http client raises                                   *)
Bodies == {"invalid sequence", "chaincode already installed"}
ExcTexts == {"timed out"}

(* the text of the exception AuditService.log_event raises when the audit  *)
(* row cannot be written                                                   *)
AuditError == "audit log unavailable"

(* the text of the exception _prepare_chaincode_directory raises           *)
PrepareError == "Failed to install node dependencies: npm ERR!"

(* what one client.post can end in: a 200, a 4xx, another status, a        *)
(* timeout or connection error, another exception; with the response text  *)
(* or the text of the exception; a 200 comes with the packageId of the     *)
(* response's data, None when the data has none                            *)
PackageIds == {None, "basic_1.0:9f2c"}

Responses ==
    ({"ok"} \X PackageIds)
    \cup ({"client_error", "server_error"} \X Bodies)
    \cup ({"transport_error", "unexpected"} \X ExcTexts)

(* the text of the exception an error inside the auto-deploy block of the  *)
(* approve route raises, by the place it is raised at; "none" is the run   *)
(* without an error                                                        *)
AutoDeployErrors ==
    [none     |-> None,
     config   |-> "'Settings' object has no attribute 'DEFAULT_DEPLOY_CHANNEL'",
     create   |-> "database is locked",
     audit    |-> AuditError,
     schedule |-> "add_task failed"]

(* the clients and the paths the rate limiter sees, and the arguments      *)
(* check_rate_limit is called with for each path, the times in minutes:    *)
(* the login limiter has a lockout longer than its window, as              *)
(* login_rate_limit and api_rate_limit have; the other has a shorter one   *)
Clients == {"203.0.113.1"}
Endpoints == {"/api/v1/auth/login", "/api/v1/chaincodes"}

Limits ==
    [e \in Endpoints |->
        IF e = "/api/v1/auth/login"
        THEN [max_requests |-> 2, window |-> 1, lockout_duration |-> 3]
        ELSE [max_requests |-> 2, window |-> 3, lockout_duration |-> 1]]

(* the socket ids and the deployment ids the socket clients name *)
Sids == {"sid1", "sid2", "sid3"}
RoomIds == {"d1", "d2"}

(***************************************************************************)
(*   chaincodes   status of every chaincode row                            *)
(*   deployments  the deployment rows, in the order of their creation      *)
(*   tasks        the runs of execute_deployment                           *)
(*   now          the clock                                                *)
(*   faults       the requests the gateway has failed                      *)
(*   audit        the rows of the audit log about deployments, as pairs    *)
(*                <<resource_id, action>>                                  *)
(*   reply        how the last synchronous call of the service ended       *)
(*   scheduled    the rows whose execute_deployment a route has handed to  *)
(*                background_tasks.add_task                                *)
(*   requests     RateLimiter.requests: per client and path the times of   *)
(*                the recorded requests                                    *)
(*   lockouts     RateLimiter.lockouts: per client and path the time the   *)
(*                lockout ends at, for the keys that have one              *)
(*   verdict      how the last check_rate_limit ended                      *)
(*   connected_clients  WebSocketService.connected_clients: per connected  *)
(*                sid its 'rooms' set                                      *)
(*   sio_rooms    the rooms of the socket server, as pairs <<sid, room>>   *)
(***************************************************************************)
VARIABLES chaincodes, deployments, tasks, now, faults, audit, reply,
          scheduled, requests, lockouts, verdict, connected_clients, sio_rooms

vars == <<chaincodes, deployments, tasks, now, faults, audit, reply,
          scheduled, requests, lockouts, verdict, connected_clients, sio_rooms>>

limiter_vars == <<requests, lockouts, verdict>>

socket_vars == <<connected_clients, sio_rooms>>

engine_vars == <<chaincodes, deployments, tasks, faults, audit, reply, scheduled>>

(***************************************************************************)
(* Strings.                                                                *)
(***************************************************************************)
Contains(s, sub) ==
    \E i \in 1..(Len(s) - Len(sub) + 1) : SubSeq(s, i, i + Len(sub) - 1) = sub

Upper == "ABCDEFGHIJKLMNOPQRSTUVWXYZ"
LowerCase == "abcdefghijklmnopqrstuvwxyz"

ToLower ==
    [c \in {SubSeq(Upper, i, i) : i \in 1..Len(Upper)} |->
        LET i == CHOOSE j \in 1..Len(Upper) : SubSeq(Upper, j, j) = c
        IN  SubSeq(LowerCase, i, i)]

lower_char(c) == IF c \in DOMAIN ToLower THEN ToLower[c] ELSE c

(* str.lower, character by character; the string is halved to keep the     *)
(* recursion shallow                                                       *)
RECURSIVE lower(_)
lower(s) ==
    IF Len(s) = 0 THEN s
    ELSE IF Len(s) = 1 THEN lower_char(s)
    ELSE LET h == Len(s) \div 2
         IN  lower(SubSeq(s, 1, h)) \o lower(SubSeq(s, h + 1, Len(s)))

ToUpper ==
    [c \in {SubSeq(LowerCase, i, i) : i \in 1..Len(LowerCase)} |->
        LET i == CHOOSE j \in 1..Len(LowerCase) : SubSeq(LowerCase, j, j) = c
        IN  SubSeq(Upper, i, i)]

upper_char(c) == IF c \in DOMAIN ToUpper THEN ToUpper[c] ELSE c

(* str.upper, character by character; the string is halved to keep the     *)
(* recursion shallow                                                       *)
RECURSIVE upper(_)
upper(s) ==
    IF Len(s) = 0 THEN s
    ELSE IF Len(s) = 1 THEN upper_char(s)
    ELSE LET h == Len(s) \div 2
         IN  upper(SubSeq(s, 1, h)) \o upper(SubSeq(s, h + 1, Len(s)))

(***************************************************************************)
(* The action of the audit event update_deployment_status logs:            *)
(* f"DEPLOYMENT_{status.upper()}".                                         *)
(***************************************************************************)
audit_action(status) == "DEPLOYMENT_" \o upper(status)

(* variant: completion_date is written on failure only *)
update_deployment_status_failure_date(deployment, status, error_message, t) ==
    [deployment EXCEPT
        !.deployment_status = status,
        !.completion_date =
            IF status \in {"failed", "rolled_back"} THEN t ELSE @,
        !.error_message =
            IF error_message # None /\ error_message # ""
            THEN error_message
            ELSE IF status = "success" THEN None ELSE @]

(***************************************************************************)
(* DeploymentService.update_deployment_status, as a function of the row:   *)
(* the status is overwritten whatever the prior status is.  t is the value *)
(* of datetime.now().  Of the two dates of a row only completion_date is   *)
(* part of the model.                                                      *)
(***************************************************************************)
update_deployment_status(deployment, status, error_message, t) ==
    [deployment EXCEPT
        !.deployment_status = status,
        !.completion_date =
            IF status \in {"success", "failed", "rolled_back"} THEN t ELSE @,
        !.error_message =
            IF error_message # None /\ error_message # ""
            THEN error_message
            ELSE IF status = "success" THEN None ELSE @]

(***************************************************************************)
(* DeploymentService.create_deployment: the row it persists.               *)
(***************************************************************************)
new_deployment(chaincode_id, target_peers) ==
    [chaincode_id |-> chaincode_id,
     target_peers |-> target_peers,
     deployment_status |-> "pending",
     completion_date |-> NoDate,
     error_message |-> None]

(***************************************************************************)
(* WorkflowService._call_gateway_with_retry: the error texts it builds.    *)
(***************************************************************************)
step_name(step) ==
    CASE step = "package" -> "Package"
      [] step = "install" -> "Install"
      [] step = "approve" -> "Approve"
      [] step = "commit"  -> "Commit"

(* variant: the response text alone *)
http_error_bare(name, text) == text

http_error(name, text) == name \o " failed: " \o text

transport_error(name, attempt, text) ==
    name \o " timeout/connection error (attempt " \o ToString(attempt)
         \o "/" \o ToString(max_retries) \o "): " \o text

unexpected_error(name, text) == name \o " unexpected error: " \o text

exhausted(last_error) ==
    last_error \o " (failed after " \o ToString(max_retries) \o " attempts)"

(* variant: no status stops the retries *)
is_client_error_never(outcome) == FALSE

(* 400 <= response.status_code < 500 *)
is_client_error(outcome) == outcome = "client_error"

(* variant: 2 ** (attempt - 1) *)
backoff_from_one(attempt) == 2 ^ (attempt - 1)

(* 2 ** attempt *)
backoff(attempt) == 2 ^ attempt

(* variant: the loop runs over range(1, max_retries) *)
call_gateway_with_retry_short(step, attempt, outcome, text) ==
    LET name == step_name(step)
        fail(err) == [kind |-> "return",
                      result |-> [success |-> FALSE, error |-> exhausted(err),
                                  data |-> None]]
    IN  CASE outcome = "ok" ->
               [kind |-> "return",
                result |-> [success |-> TRUE, error |-> None, data |-> text]]
          [] outcome \in {"client_error", "server_error"} ->
               IF is_client_error(outcome)
               THEN [kind |-> "return",
                     result |-> [success |-> FALSE, error |-> http_error(name, text),
                                 data |-> None]]
               ELSE IF attempt < max_retries - 1
               THEN [kind |-> "retry",
                     result |-> [success |-> FALSE, error |-> None, data |-> None]]
               ELSE fail(http_error(name, text))
          [] outcome = "transport_error" ->
               IF attempt < max_retries - 1
               THEN [kind |-> "sleep",
                     result |-> [success |-> FALSE, error |-> None, data |-> None]]
               ELSE fail(transport_error(name, attempt, text))
          [] outcome = "unexpected" ->
               fail(unexpected_error(name, text))

(***************************************************************************)
(* One pass of the retry loop of _call_gateway_with_retry: what attempt    *)
(* `attempt` of the call of `step` does when client.post ends in `outcome` *)
(* with response text or exception text `text` (for a 200: with the        *)
(* packageId of the response's data).                                      *)
(*   kind "return"   the call returns `result`                             *)
(*   kind "retry"    the loop goes to the next attempt without waiting     *)
(*   kind "sleep"    the loop sleeps backoff(attempt), then goes on        *)
(***************************************************************************)
call_gateway_with_retry(step, attempt, outcome, text) ==
    LET name == step_name(step)
        fail(err) == [kind |-> "return",
                      result |-> [success |-> FALSE, error |-> exhausted(err),
                                  data |-> None]]
    IN  CASE outcome = "ok" ->
               [kind |-> "return",
                result |-> [success |-> TRUE, error |-> None, data |-> text]]
          [] outcome \in {"client_error", "server_error"} ->
               IF is_client_error(outcome)
               THEN [kind |-> "return",
                     result |-> [success |-> FALSE, error |-> http_error(name, text),
                                 data |-> None]]
               ELSE IF attempt < max_retries
               THEN [kind |-> "retry",
                     result |-> [success |-> FALSE, error |-> None, data |-> None]]
               ELSE fail(http_error(name, text))
          [] outcome = "transport_error" ->
               IF attempt < max_retries
               THEN [kind |-> "sleep",
                     result |-> [success |-> FALSE, error |-> None, data |-> None]]
               ELSE fail(transport_error(name, attempt, text))
          [] outcome = "unexpected" ->
               fail(unexpected_error(name, text))

(***************************************************************************)
(* The context dict of execute_deployment_workflow, of which the keys the  *)
(* steps read are kept; a key that is not set reads as None (dict.get).    *)
(* context.update(step result) overwrites the keys the result has.         *)
(***************************************************************************)
EmptyContext ==
    [packageId |-> None, peerEndpoint |-> None, alreadyInstalled |-> FALSE]

context_update(context, keys) ==
    [k \in DOMAIN context |-> IF k \in DOMAIN keys THEN keys[k] ELSE context[k]]

(* a step result without keys for the context *)
NoKeys == [k \in {} |-> None]

(***************************************************************************)
(* WorkflowService._package_chaincode: a successful call yields the        *)
(* packageId of the response.                                              *)
(***************************************************************************)
package_chaincode(result) ==
    IF result.success
    THEN [success |-> TRUE, error |-> None, keys |-> [packageId |-> result.data]]
    ELSE [success |-> FALSE, error |-> result.error, keys |-> NoKeys]

(* (deployment.target_peers or [None])[0] *)
first_peer(deployment) ==
    IF deployment.target_peers = <<>> THEN None ELSE deployment.target_peers[1]

(* variant: a failed install call is a failed install step *)
install_chaincode_strict(result, context, deployment) ==
    IF result.success
    THEN [success |-> TRUE, error |-> None,
          keys |-> [packageId |-> result.data,
                    peerEndpoint |-> first_peer(deployment)]]
    ELSE [success |-> FALSE, error |-> result.error, keys |-> NoKeys]

(***************************************************************************)
(* WorkflowService._install_chaincode: a failed call whose error says the  *)
(* package is already installed is reported as success, with the packageId *)
(* of the context.                                                         *)
(***************************************************************************)
install_chaincode(result, context, deployment) ==
    IF result.success
    THEN [success |-> TRUE, error |-> None,
          keys |-> [packageId |-> result.data,
                    peerEndpoint |-> first_peer(deployment)]]
    ELSE IF \/ Contains(lower(result.error), "already successfully installed")
            \/ Contains(lower(result.error), "already installed")
         THEN [success |-> TRUE, error |-> None,
               keys |-> [packageId |-> context.packageId,
                         peerEndpoint |-> first_peer(deployment),
                         alreadyInstalled |-> TRUE]]
         ELSE [success |-> FALSE, error |-> result.error, keys |-> NoKeys]

(* _approve_chaincode and _commit_chaincode return the result of the call *)
call_result(result) ==
    [success |-> result.success, error |-> result.error, keys |-> NoKeys]

(* the result of a step, from the result of its gateway call *)
step_result(step, result, context, deployment) ==
    CASE step = "package" -> package_chaincode(result)
      [] step = "install" -> install_chaincode(result, context, deployment)
      [] OTHER -> call_result(result)

(***************************************************************************)
(* WorkflowService.execute_deployment_workflow: the failure it returns     *)
(* when a step fails, and the step that follows a step.                    *)
(***************************************************************************)
step_failure(step, error) ==
    "Deployment failed at step '" \o step \o "': " \o error

StepIndex(step) == CHOOSE i \in 1..Len(Steps) : Steps[i] = step

IsLastStep(step) == StepIndex(step) = Len(Steps)

(* variant: the step after the next one *)
next_step_skipping(step) ==
    Steps[IF StepIndex(step) + 2 <= Len(Steps) THEN StepIndex(step) + 2 ELSE Len(Steps)]

next_step(step) == Steps[StepIndex(step) + 1]

(***************************************************************************)
(* A task is one run of execute_deployment.                                *)
(*   issued        the steps whose gateway call has been started           *)
(*   step_results  the success flag of every step that has returned        *)
(*   attempts      how each request of the current call ended              *)
(*   waits         the seconds slept between the requests of that call     *)
(*   context       the context dict of the workflow while it runs          *)
(*   result        what the workflow returned, and in the end what         *)
(*                 execute_deployment returns                              *)
(*   exception     the text of the exception the except clause handles     *)
(*   activated     the task has written the chaincode's status             *)
(*   emit_failed   sio.emit raised inside emit_deployment_update           *)
(***************************************************************************)
IdleTask ==
    [pc |-> "idle", deployment_id |-> 0, step |-> "none", attempt |-> 0,
     issued |-> <<>>, step_results |-> <<>>, attempts |-> <<>>, waits |-> <<>>,
     context |-> EmptyContext,
     result |-> [success |-> FALSE, error |-> None],
     exception |-> None, activated |-> FALSE, emit_failed |-> FALSE]

(***************************************************************************)
(* How a synchronous call of the service ended: the operation, the         *)
(* chaincode id it was given, the text of the error it raised or returned  *)
(* (None when it succeeded), and whether it sent a request to the gateway; *)
(* for a call that did: how many requests it sent and how client.post      *)
(* ended.                                                                  *)
(***************************************************************************)
NoReply ==
    [op |-> "none", chaincode_id |-> None, error |-> None, sent |-> FALSE,
     posts |-> 0, outcome |-> None]

Reply(op, chaincode_id, error, sent) ==
    [op |-> op, chaincode_id |-> chaincode_id, error |-> error, sent |-> sent,
     posts |-> 0, outcome |-> None]

(* how a call of check_rate_limit ended: 200 when it returned True *)
NoVerdict == [client |-> None, endpoint |-> None, status_code |-> 0, detail |-> None]

(* AuditService.log_event, when it does not raise: the row is added *)
log_event(resource_id, action) == audit \cup {<<resource_id, action>>}

(***************************************************************************)
(* Initial state: an empty deployment table, one chaincode approved and    *)
(* one only uploaded, no task started.                                     *)
(***************************************************************************)
Init ==
    /\ chaincodes = [c \in Chaincodes |-> IF c = "cc1" THEN "approved" ELSE "uploaded"]
    /\ deployments = <<>>
    /\ tasks = [t \in Tasks |-> IdleTask]
    /\ now = Epoch
    /\ faults = 0
    /\ audit = {}
    /\ reply = NoReply
    /\ scheduled = {}
    /\ requests = [k \in Clients \X Endpoints |-> <<>>]
    /\ lockouts = [k \in {} |-> NoDate]
    /\ verdict = NoVerdict
    /\ connected_clients = [sid \in {} |-> {}]
    /\ sio_rooms = {}

(* variant: the status of the chaincode is not checked *)
create_deployment_any_status(chaincode_id, target_peers) ==
    /\ Len(deployments) < MaxDeployments
    /\ IF chaincode_id \notin Chaincodes
       THEN /\ reply' = Reply("create_deployment", chaincode_id,
                              "Chaincode not found", FALSE)
            /\ UNCHANGED <<deployments, audit>>
       ELSE /\ deployments' = Append(deployments,
                                     new_deployment(chaincode_id, target_peers))
            /\ audit' = log_event(Len(deployments) + 1, "DEPLOYMENT_CREATED")
            /\ reply' = Reply("create_deployment", chaincode_id, None, FALSE)
    /\ UNCHANGED <<chaincodes, tasks, now, faults>>
    /\ UNCHANGED <<scheduled, limiter_vars, socket_vars>>

(***************************************************************************)
(* create_deployment(chaincode_id, channel_name, target_peers, ...): raises *)
(* ValueError unless the chaincode exists and is approved; otherwise       *)
(* persists a row in status pending and logs DEPLOYMENT_CREATED.           *)
(* target_peers is stored as it is given.                                  *)
(***************************************************************************)
create_deployment(chaincode_id, target_peers) ==
    /\ Len(deployments) < MaxDeployments
    /\ IF chaincode_id \notin Chaincodes
       THEN /\ reply' = Reply("create_deployment", chaincode_id,
                              "Chaincode not found", FALSE)
            /\ UNCHANGED <<deployments, audit>>
       ELSE IF chaincodes[chaincode_id] # "approved"
       THEN /\ reply' = Reply("create_deployment", chaincode_id,
                              "Chaincode must be approved before deployment", FALSE)
            /\ UNCHANGED <<deployments, audit>>
       ELSE /\ deployments' = Append(deployments,
                                     new_deployment(chaincode_id, target_peers))
            /\ audit' = log_event(Len(deployments) + 1, "DEPLOYMENT_CREATED")
            /\ reply' = Reply("create_deployment", chaincode_id, None, FALSE)
    /\ UNCHANGED <<chaincodes, tasks, now, faults>>
    /\ UNCHANGED <<scheduled, limiter_vars, socket_vars>>

(* variant: the status is not set to deploying *)
execute_deployment_keeps_status(t, d, prepared, logged) ==
    /\ tasks[t].pc = "idle"
    /\ \A u \in Tasks : u < t => tasks[u].pc # "idle"
    /\ d \in 1..Len(deployments)
    /\ audit' = IF logged THEN log_event(d, audit_action("deploying")) ELSE audit
    /\ tasks' = [tasks EXCEPT ![t] =
         CASE ~logged ->
                [@ EXCEPT !.pc = "except", !.deployment_id = d,
                          !.exception = AuditError]
           [] logged /\ prepared ->
                [@ EXCEPT !.pc = "call", !.deployment_id = d,
                          !.step = "package", !.attempt = 1,
                          !.issued = <<"package">>]
           [] logged /\ ~prepared ->
                [@ EXCEPT !.pc = "result", !.deployment_id = d,
                          !.result = [success |-> FALSE, error |-> PrepareError]]]
    /\ UNCHANGED <<chaincodes, deployments, now, faults, reply>>
    /\ UNCHANGED <<scheduled, limiter_vars, socket_vars>>

(***************************************************************************)
(* execute_deployment(deployment_id), up to its first await: the row is    *)
(* looked up, its status is set to deploying and committed, and the audit  *)
(* event is logged; when log_event raises (~logged) the except clause      *)
(* takes over.  Otherwise the workflow is entered: it prepares the         *)
(* chaincode directory, which may raise inside the workflow's own try, and *)
(* then sends the first request of the package step.  A run takes the      *)
(* first task that is not started.                                         *)
(***************************************************************************)
execute_deployment(t, d, prepared, logged) ==
    /\ tasks[t].pc = "idle"
    /\ \A u \in Tasks : u < t => tasks[u].pc # "idle"
    /\ d \in 1..Len(deployments)
    /\ deployments' = [deployments EXCEPT
                         ![d] = update_deployment_status(@, "deploying", None, now)]
    /\ audit' = IF logged THEN log_event(d, audit_action("deploying")) ELSE audit
    /\ tasks' = [tasks EXCEPT ![t] =
         CASE ~logged ->
                [@ EXCEPT !.pc = "except", !.deployment_id = d,
                          !.exception = AuditError]
           [] logged /\ prepared ->
                [@ EXCEPT !.pc = "call", !.deployment_id = d,
                          !.step = "package", !.attempt = 1,
                          !.issued = <<"package">>]
           [] logged /\ ~prepared ->
                [@ EXCEPT !.pc = "result", !.deployment_id = d,
                          !.result = [success |-> FALSE, error |-> PrepareError]]]
    /\ UNCHANGED <<chaincodes, now, faults, reply>>
    /\ UNCHANGED <<scheduled, limiter_vars, socket_vars>>

(***************************************************************************)
(* One attempt of the gateway call of the current step: the request is     *)
(* sent and client.post ends in `outcome`.  When the call returns, the     *)
(* step's result decides whether the workflow updates its context and goes *)
(* on to the next step, or returns; the context ends with the workflow.    *)
(***************************************************************************)
gateway_attempt(t, outcome, text) ==
    LET task == tasks[t]
        r == call_gateway_with_retry(task.step, task.attempt, outcome, text)
        sent == [task EXCEPT !.attempts =
                    Append(@, <<outcome, IF outcome = "ok" THEN "" ELSE text>>)]
        sr == step_result(task.step, r.result, task.context,
                          deployments[task.deployment_id])
        returned == [sent EXCEPT !.step_results = Append(@, sr.success)]
    IN  /\ task.pc = "call"
        /\ tasks' = [tasks EXCEPT ![t] =
             CASE r.kind = "retry" ->
                    [sent EXCEPT !.attempt = @ + 1]
               [] r.kind = "sleep" ->
                    [sent EXCEPT !.pc = "sleep"]
               [] r.kind = "return" /\ sr.success /\ ~IsLastStep(task.step) ->
                    [returned EXCEPT !.step = next_step(task.step), !.attempt = 1,
                                     !.issued = Append(@, next_step(task.step)),
                                     !.attempts = <<>>, !.waits = <<>>,
                                     !.context = context_update(@, sr.keys)]
               [] r.kind = "return" /\ sr.success /\ IsLastStep(task.step) ->
                    [returned EXCEPT !.pc = "result",
                                     !.context = EmptyContext,
                                     !.result = [success |-> TRUE, error |-> None]]
               [] r.kind = "return" /\ ~sr.success ->
                    [returned EXCEPT !.pc = "result",
                                     !.context = EmptyContext,
                                     !.result = [success |-> FALSE,
                                                 error |-> step_failure(task.step, sr.error)]]]
        /\ UNCHANGED <<chaincodes, deployments, now, audit, reply>>
        /\ UNCHANGED <<scheduled, limiter_vars, socket_vars>>

(***************************************************************************)
(* The gateway answers; `faults` counts the answers that are not a 200.    *)
(***************************************************************************)
gateway_answers(t, r) ==
    /\ r[1] # "ok" => faults < MaxFaults
    /\ faults' = IF r[1] = "ok" THEN faults ELSE faults + 1
    /\ gateway_attempt(t, r[1], r[2])

(* variant: the sleep does not end *)
backoff_sleep_forever(t) ==
    /\ tasks[t].pc = "sleep"
    /\ UNCHANGED vars

(***************************************************************************)
(* asyncio.sleep(2 ** attempt) between two attempts.                       *)
(***************************************************************************)
backoff_sleep(t) ==
    /\ tasks[t].pc = "sleep"
    /\ tasks' = [tasks EXCEPT ![t] =
                   [@ EXCEPT !.pc = "call",
                             !.waits = Append(@, backoff(tasks[t].attempt)),
                             !.attempt = @ + 1]]
    /\ UNCHANGED <<chaincodes, deployments, now, faults, audit, reply>>
    /\ UNCHANGED <<scheduled, limiter_vars, socket_vars>>

(***************************************************************************)
(* execute_deployment, result["success"]: the chaincode is set active and  *)
(* committed.                                                              *)
(***************************************************************************)
activate_chaincode(t) ==
    /\ tasks[t].pc = "result"
    /\ tasks[t].result.success
    /\ chaincodes' = [chaincodes EXCEPT
                        ![deployments[tasks[t].deployment_id].chaincode_id] = "active"]
    /\ tasks' = [tasks EXCEPT ![t] = [@ EXCEPT !.pc = "mark_success", !.activated = TRUE]]
    /\ UNCHANGED <<deployments, now, faults, audit, reply>>
    /\ UNCHANGED <<scheduled, limiter_vars, socket_vars>>

(***************************************************************************)
(* execute_deployment: update_deployment_status(id, "success"), which      *)
(* commits the row and then logs the audit event.                          *)
(***************************************************************************)
mark_success(t, logged) ==
    /\ tasks[t].pc = "mark_success"
    /\ deployments' = [deployments EXCEPT ![tasks[t].deployment_id] =
                         update_deployment_status(@, "success", None, now)]
    /\ now' = now + 1
    /\ audit' = IF logged
                THEN log_event(tasks[t].deployment_id, audit_action("success"))
                ELSE audit
    /\ tasks' = [tasks EXCEPT ![t] =
                   IF logged THEN [@ EXCEPT !.pc = "emit"]
                   ELSE [@ EXCEPT !.pc = "except", !.exception = AuditError]]
    /\ UNCHANGED <<chaincodes, faults, reply>>
    /\ UNCHANGED <<scheduled, limiter_vars, socket_vars>>

(* variant: an error of sio.emit leaves emit_deployment_update *)
emit_returns_unless_raised(sio_raises) == ~sio_raises

(***************************************************************************)
(* WebSocketService.emit_deployment_update: sio.emit runs inside           *)
(* try/except Exception, and the handler only logs; the call returns       *)
(* normally whether or not sio.emit raises.                                *)
(***************************************************************************)
emit_returns(sio_raises) == TRUE

(* the text of the exception sio.emit raises *)
EmitError == "socket closed"

(***************************************************************************)
(* execute_deployment: await emit_deployment_update(...), then return the  *)
(* result.                                                                 *)
(***************************************************************************)
emit_deployment_update(t, sio_raises) ==
    /\ tasks[t].pc = "emit"
    /\ tasks' = [tasks EXCEPT ![t] =
                   IF emit_returns(sio_raises)
                   THEN [@ EXCEPT !.pc = "done", !.emit_failed = sio_raises]
                   ELSE [@ EXCEPT !.pc = "except", !.emit_failed = sio_raises,
                                  !.exception = EmitError]]
    /\ UNCHANGED <<chaincodes, deployments, now, faults, audit, reply>>
    /\ UNCHANGED <<scheduled, limiter_vars, socket_vars>>

(***************************************************************************)
(* execute_deployment, else branch:                                        *)
(* update_deployment_status(id, "failed", error_message=result["error"]).  *)
(***************************************************************************)
mark_failed(t, logged) ==
    /\ tasks[t].pc = "result"
    /\ ~tasks[t].result.success
    /\ deployments' = [deployments EXCEPT ![tasks[t].deployment_id] =
                         update_deployment_status(@, "failed", tasks[t].result.error, now)]
    /\ now' = now + 1
    /\ audit' = IF logged
                THEN log_event(tasks[t].deployment_id, audit_action("failed"))
                ELSE audit
    /\ tasks' = [tasks EXCEPT ![t] =
                   IF logged THEN [@ EXCEPT !.pc = "done"]
                   ELSE [@ EXCEPT !.pc = "except", !.exception = AuditError]]
    /\ UNCHANGED <<chaincodes, faults, reply>>
    /\ UNCHANGED <<scheduled, limiter_vars, socket_vars>>

(***************************************************************************)
(* execute_deployment, except Exception as e:                              *)
(* update_deployment_status(id, "failed", error_message=str(e)); when its  *)
(* log_event raises too, the exception leaves execute_deployment.          *)
(***************************************************************************)
handle_exception(t, logged) ==
    /\ tasks[t].pc = "except"
    /\ deployments' = [deployments EXCEPT ![tasks[t].deployment_id] =
                         update_deployment_status(@, "failed", tasks[t].exception, now)]
    /\ now' = now + 1
    /\ audit' = IF logged
                THEN log_event(tasks[t].deployment_id, audit_action("failed"))
                ELSE audit
    /\ tasks' = [tasks EXCEPT ![t] =
                   [@ EXCEPT !.pc = IF logged THEN "done" ELSE "raised",
                             !.result = [success |-> FALSE,
                                         error |-> tasks[t].exception]]]
    /\ UNCHANGED <<chaincodes, faults, reply>>
    /\ UNCHANGED <<scheduled, limiter_vars, socket_vars>>

(***************************************************************************)
(* What the single request of invoke_chaincode and query_chaincode gives:  *)
(* None for a 200, f"Gateway error: {response.text}" for another status,   *)
(* str(e) for an exception.                                                *)
(***************************************************************************)
gateway_error(r) ==
    CASE r[1] = "ok" -> None
      [] r[1] \in {"client_error", "server_error"} -> "Gateway error: " \o r[2]
      [] OTHER -> r[2]

(* variant: the request is repeated as a step's request is *)
gateway_requests_retried(r) == IF r[1] = "ok" THEN 1 ELSE max_retries

(***************************************************************************)
(* The requests invoke_chaincode and query_chaincode send once the checks  *)
(* have passed: one client.post inside the try, outside any loop, whatever *)
(* it ends in.                                                             *)
(***************************************************************************)
gateway_requests(r) == 1

(* the reply of a call that went to the gateway *)
GatewayReply(op, chaincode_id, r) ==
    [Reply(op, chaincode_id, gateway_error(r), TRUE) EXCEPT
        !.posts = gateway_requests(r), !.outcome = r[1]]

(***************************************************************************)
(* invoke_chaincode(chaincode_id, ...): raises ValueError unless the       *)
(* chaincode exists and is active, then posts one request to the gateway.  *)
(***************************************************************************)
invoke_chaincode(chaincode_id, r) ==
    /\ reply' =
         IF chaincode_id \notin Chaincodes
         THEN Reply("invoke_chaincode", chaincode_id, "Chaincode not found", FALSE)
         ELSE IF chaincodes[chaincode_id] # "active"
         THEN Reply("invoke_chaincode", chaincode_id,
                    "Chaincode must be active to invoke", FALSE)
         ELSE GatewayReply("invoke_chaincode", chaincode_id, r)
    /\ UNCHANGED <<chaincodes, deployments, tasks, now, faults, audit>>
    /\ UNCHANGED <<scheduled, limiter_vars, socket_vars>>

(***************************************************************************)
(* query_chaincode(chaincode_id, ...): raises ValueError unless the        *)
(* chaincode exists, then posts one request to the gateway.                *)
(***************************************************************************)
query_chaincode(chaincode_id, r) ==
    /\ reply' =
         IF chaincode_id \notin Chaincodes
         THEN Reply("query_chaincode", chaincode_id, "Chaincode not found", FALSE)
         ELSE GatewayReply("query_chaincode", chaincode_id, r)
    /\ UNCHANGED <<chaincodes, deployments, tasks, now, faults, audit>>
    /\ UNCHANGED <<scheduled, limiter_vars, socket_vars>>

(* variant: the error of the auto-deploy block leaves the route *)
auto_deploy_error_raised(fault) == AutoDeployErrors[fault]

(***************************************************************************)
(* The approve route, try/except around the auto-deploy block: `except     *)
(* Exception: pass`, so the route goes on to `return chaincode` whatever   *)
(* was raised inside the block.  The value is the error that reaches the   *)
(* caller of the route.                                                    *)
(***************************************************************************)
auto_deploy_error(fault) == None

(***************************************************************************)
(* PUT /{chaincode_id}/approve.  update_chaincode_status sets the status   *)
(* to approved whatever it was (its CHAINCODE_APPROVED event is not kept:  *)
(* `audit` holds the events of the deployment rows); an unknown id gives   *)
(* 404.  Then, when settings.AUTO_DEPLOY_ON_APPROVE is set and the         *)
(* default peers (from the settings or the chaincode's metadata) are not   *)
(* empty, create_deployment persists a pending row and logs                *)
(* DEPLOYMENT_CREATED, and execute_deployment is handed to                 *)
(* background_tasks.add_task.  `fault` is the place inside the block an    *)
(* exception is raised at: reading the settings, create_deployment before  *)
(* its commit, its log_event after the commit, or add_task.                *)
(***************************************************************************)
approve_chaincode(chaincode_id, auto_deploy, default_peers, fault) ==
    LET id == Len(deployments) + 1
        created == /\ auto_deploy
                   /\ default_peers # <<>>
                   /\ fault \notin {"config", "create"}
    IN  /\ fault # "none" => auto_deploy
        /\ fault \in {"create", "audit", "schedule"} => default_peers # <<>>
        /\ created => Len(deployments) < MaxDeployments
        /\ IF chaincode_id \notin Chaincodes
           THEN /\ fault = "none"
                /\ reply' = Reply("approve_chaincode", chaincode_id,
                                  "Chaincode not found", FALSE)
                /\ UNCHANGED <<chaincodes, deployments, audit, scheduled>>
           ELSE /\ chaincodes' = [chaincodes EXCEPT ![chaincode_id] = "approved"]
                /\ deployments' =
                     IF created
                     THEN Append(deployments, new_deployment(chaincode_id, default_peers))
                     ELSE deployments
                /\ audit' =
                     IF created /\ fault # "audit"
                     THEN log_event(id, "DEPLOYMENT_CREATED")
                     ELSE audit
                /\ scheduled' =
                     IF created /\ fault \notin {"audit", "schedule"}
                     THEN scheduled \cup {id}
                     ELSE scheduled
                /\ reply' = Reply("approve_chaincode", chaincode_id,
                                  auto_deploy_error(fault), FALSE)
        /\ UNCHANGED <<tasks, now, faults, limiter_vars, socket_vars>>

(* the text of the AttributeError the /deploy route raises *)
SequenceError == "'ChaincodeDeploy' object has no attribute 'sequence'"

(***************************************************************************)
(* POST /deploy.  The arguments of create_deployment are evaluated first,  *)
(* among them `deploy_data.sequence or 1`: the request schema              *)
(* ChaincodeDeploy has the fields chaincode_id, channel_name and           *)
(* target_peers only, so reading the attribute raises AttributeError,      *)
(* which the route's `except ValueError` does not catch; create_deployment *)
(* and add_task are not reached.                                           *)
(***************************************************************************)
deploy_chaincode(chaincode_id, target_peers) ==
    /\ reply' = Reply("deploy_chaincode", chaincode_id, SequenceError, FALSE)
    /\ UNCHANGED <<chaincodes, deployments, tasks, now, faults, audit, scheduled>>
    /\ UNCHANGED <<limiter_vars, socket_vars>>

(***************************************************************************)
(* RateLimiter._cleanup_old_requests: the recorded times later than        *)
(* now - window are kept.                                                  *)
(***************************************************************************)
cleanup_old_requests(timestamps, t, window) ==
    SelectSeq(timestamps, LAMBDA ts : ts > t - window)

(* RateLimiter._is_locked_out: the key has a lockout that ends after now *)
is_locked_out(k, t) == k \in DOMAIN lockouts /\ t < lockouts[k]

(* del self.lockouts[ip][endpoint] *)
lockout_removed(k) == [x \in DOMAIN lockouts \ {k} |-> lockouts[x]]

(* RateLimiter._lockout_ip: the lockout of the key ends at `lockout_until` *)
lockout_ip(k, lockout_until) ==
    [x \in DOMAIN lockouts \cup {k} |->
        IF x = k THEN lockout_until ELSE lockouts[x]]

(* the details of the two HTTPExceptions of check_rate_limit *)
locked_detail(remaining) ==
    "Too many failed attempts. Account locked for " \o ToString(remaining)
        \o " more minutes."

exceeded_detail(lockout_duration) ==
    "Rate limit exceeded. Too many requests. Locked out for "
        \o ToString(lockout_duration) \o " minutes."

Verdict(client, endpoint, status_code, detail) ==
    [client |-> client, endpoint |-> endpoint, status_code |-> status_code,
     detail |-> detail]

(***************************************************************************)
(* RateLimiter.check_rate_limit for a request of `client` to `endpoint`.   *)
(* A key that is locked out is answered 429 at once.  Otherwise an expired *)
(* lockout is removed, the old requests are cleaned up, the time of this   *)
(* request is appended, and only then the length of the list is compared   *)
(* with max_requests: above it the key is locked out and the request is    *)
(* answered 429, else the check returns True.                              *)
(***************************************************************************)
check_rate_limit(client, endpoint, max_requests, window, lockout_duration) ==
    LET k == <<client, endpoint>>
        recorded == Append(cleanup_old_requests(requests[k], now, window), now)
        request_count == Len(recorded)
    IN  /\ IF is_locked_out(k, now)
           THEN /\ verdict' = Verdict(client, endpoint, 429,
                                      locked_detail(lockouts[k] - now))
                /\ UNCHANGED <<requests, lockouts>>
           ELSE /\ requests' = [requests EXCEPT ![k] = recorded]
                /\ IF request_count > max_requests
                   THEN /\ lockouts' = lockout_ip(k, now + lockout_duration)
                        /\ verdict' = Verdict(client, endpoint, 429,
                                              exceeded_detail(lockout_duration))
                   ELSE /\ lockouts' = lockout_removed(k)
                        /\ verdict' = Verdict(client, endpoint, 200, None)
        /\ UNCHANGED <<now, engine_vars, socket_vars>>

(* datetime.now() moves on by a minute *)
minute_passes ==
    /\ now < MaxTime
    /\ now' = now + 1
    /\ UNCHANGED <<engine_vars, limiter_vars, socket_vars>>

(* f"deployment_{deployment_id}" *)
room_name(deployment_id) == "deployment_" \o deployment_id

(***************************************************************************)
(* The socket handlers of WebSocketService.setup_handlers.  connect: the   *)
(* server has accepted a new sid, which gets an entry with an empty        *)
(* 'rooms' set.                                                            *)
(***************************************************************************)
connect(sid) ==
    /\ sid \notin DOMAIN connected_clients
    /\ connected_clients' =
         [x \in DOMAIN connected_clients \cup {sid} |->
             IF x = sid THEN {} ELSE connected_clients[x]]
    /\ UNCHANGED <<sio_rooms, now, engine_vars, limiter_vars>>

(* disconnect: the entry is deleted; the server drops the sid from its     *)
(* rooms                                                                   *)
disconnect(sid) ==
    /\ connected_clients' =
         [x \in DOMAIN connected_clients \ {sid} |-> connected_clients[x]]
    /\ sio_rooms' = {m \in sio_rooms : m[1] # sid}
    /\ UNCHANGED <<now, engine_vars, limiter_vars>>

(* join_deployment: sio.enter_room, and the room is added to the entry's   *)
(* 'rooms'; nothing without a deployment_id in the data                    *)
join_deployment(sid, deployment_id) ==
    /\ IF deployment_id # None
       THEN /\ sio_rooms' = sio_rooms \cup {<<sid, room_name(deployment_id)>>}
            /\ connected_clients' =
                 IF sid \in DOMAIN connected_clients
                 THEN [connected_clients EXCEPT
                         ![sid] = @ \cup {room_name(deployment_id)}]
                 ELSE connected_clients
       ELSE UNCHANGED <<sio_rooms, connected_clients>>
    /\ UNCHANGED <<now, engine_vars, limiter_vars>>

(* leave_deployment: sio.leave_room, and nothing else *)
leave_deployment(sid, deployment_id) ==
    /\ IF deployment_id # None
       THEN sio_rooms' = sio_rooms \ {<<sid, room_name(deployment_id)>>}
       ELSE UNCHANGED sio_rooms
    /\ UNCHANGED <<connected_clients, now, engine_vars, limiter_vars>>

(* get_room_members: the entries whose 'rooms' hold the room *)
get_room_members(room) ==
    Cardinality({sid \in DOMAIN connected_clients : room \in connected_clients[sid]})

(***************************************************************************)
(* Spec: up to MaxTasks runs of execute_deployment, on the same row or on  *)
(* different rows, interleaved; the gateway fails at most MaxFaults        *)
(* requests; the audit sink works.                                         *)
(***************************************************************************)
Next ==
    \/ \E c \in ChaincodeIds, p \in ValidPeerLists : create_deployment(c, p)
    \/ \E t \in Tasks, d \in 1..MaxDeployments, prepared \in BOOLEAN :
          execute_deployment(t, d, prepared, TRUE)
    \/ \E t \in Tasks, r \in Responses : gateway_answers(t, r)
    \/ \E t \in Tasks : backoff_sleep(t)
    \/ \E t \in Tasks : activate_chaincode(t)
    \/ \E t \in Tasks : mark_success(t, TRUE)
    \/ \E t \in Tasks : emit_deployment_update(t, FALSE)
    \/ \E t \in Tasks : mark_failed(t, TRUE)

Spec == Init /\ [][Next]_vars

(***************************************************************************)
(* SpecSingle: the end-to-end scenarios.  One task runs                    *)
(* execute_deployment once, the gateway may fail any request and the       *)
(* socket server any emit, the audit sink works.                           *)
(***************************************************************************)
NextSingle ==
    \/ \E c \in ChaincodeIds, p \in ValidPeerLists : create_deployment(c, p)
    \/ \E d \in 1..MaxDeployments, prepared \in BOOLEAN :
          execute_deployment(1, d, prepared, TRUE)
    \/ \E r \in Responses : gateway_attempt(1, r[1], r[2]) /\ UNCHANGED faults
    \/ backoff_sleep(1)
    \/ activate_chaincode(1)
    \/ mark_success(1, TRUE)
    \/ \E sio_raises \in BOOLEAN : emit_deployment_update(1, sio_raises)
    \/ mark_failed(1, TRUE)

SpecSingle == Init /\ [][NextSingle]_vars

(***************************************************************************)
(* SpecAudit: as SpecSingle, and AuditService.log_event may raise on any   *)
(* write of a status transition.                                           *)
(***************************************************************************)
NextAudit ==
    \/ NextSingle
    \/ \E d \in 1..MaxDeployments : execute_deployment(1, d, TRUE, FALSE)
    \/ mark_success(1, FALSE)
    \/ mark_failed(1, FALSE)
    \/ \E logged \in BOOLEAN : handle_exception(1, logged)

SpecAudit == Init /\ [][NextAudit]_vars

(***************************************************************************)
(* SpecLive: SpecAudit with a run that is not interrupted.  Once           *)
(* execute_deployment has started, the event loop resumes its coroutine    *)
(* whenever the awaited request or sleep is over, and every request ends:  *)
(* in a response, or in the timeout of the http client.                    *)
(***************************************************************************)
run_step ==
    \/ \E r \in Responses : gateway_attempt(1, r[1], r[2]) /\ UNCHANGED faults
    \/ backoff_sleep(1)
    \/ activate_chaincode(1)
    \/ \E logged \in BOOLEAN : mark_success(1, logged)
    \/ \E sio_raises \in BOOLEAN : emit_deployment_update(1, sio_raises)
    \/ \E logged \in BOOLEAN : mark_failed(1, logged)
    \/ \E logged \in BOOLEAN : handle_exception(1, logged)

SpecLive == Init /\ [][NextAudit]_vars /\ WF_vars(run_step)

(***************************************************************************)
(* SpecService: as SpecSingle, and the service is called directly:         *)
(* create_deployment with any target_peers list, invoke_chaincode and      *)
(* query_chaincode for any chaincode id.                                   *)
(***************************************************************************)
NextService ==
    \/ NextSingle
    \/ \E c \in ChaincodeIds, p \in PeerLists : create_deployment(c, p)
    \/ \E c \in ChaincodeIds, r \in Responses : invoke_chaincode(c, r)
    \/ \E c \in ChaincodeIds, r \in Responses : query_chaincode(c, r)

SpecService == Init /\ [][NextService]_vars

(***************************************************************************)
(* SpecCalls: the calls of an activated chaincode.  One run of             *)
(* execute_deployment whose requests the gateway answers with a 200, and   *)
(* invoke_chaincode and query_chaincode for any chaincode id, their        *)
(* request ending in any way.                                              *)
(***************************************************************************)
NextCalls ==
    \/ \E c \in ChaincodeIds, p \in ValidPeerLists : create_deployment(c, p)
    \/ \E d \in 1..MaxDeployments : execute_deployment(1, d, TRUE, TRUE)
    \/ \E id \in PackageIds : gateway_attempt(1, "ok", id) /\ UNCHANGED faults
    \/ activate_chaincode(1)
    \/ mark_success(1, TRUE)
    \/ emit_deployment_update(1, FALSE)
    \/ \E c \in ChaincodeIds, r \in Responses : invoke_chaincode(c, r)
    \/ \E c \in ChaincodeIds, r \in Responses : query_chaincode(c, r)

SpecCalls == Init /\ [][NextCalls]_vars

(***************************************************************************)
(* SpecRoutes: the routes that create deployments.  Chaincodes are         *)
(* approved with or without the auto-deploy setting, with any error inside *)
(* the auto-deploy block; /deploy is requested; the background task runs   *)
(* execute_deployment for a row a route has scheduled, and the gateway     *)
(* answers its requests with a 200 or a 4xx.                               *)
(***************************************************************************)
RouteResponses ==
    {<<"ok", "basic_1.0:9f2c">>, <<"client_error", "invalid sequence">>}

NextRoutes ==
    \/ \E c \in ChaincodeIds, auto_deploy \in BOOLEAN, p \in PeerLists,
          fault \in DOMAIN AutoDeployErrors :
          approve_chaincode(c, auto_deploy, p, fault)
    \/ \E c \in ChaincodeIds, p \in ValidPeerLists : deploy_chaincode(c, p)
    \/ \E d \in scheduled, prepared \in BOOLEAN :
          execute_deployment(1, d, prepared, TRUE)
    \/ \E r \in RouteResponses : gateway_attempt(1, r[1], r[2]) /\ UNCHANGED faults
    \/ activate_chaincode(1)
    \/ mark_success(1, TRUE)
    \/ emit_deployment_update(1, FALSE)
    \/ mark_failed(1, TRUE)

SpecRoutes == Init /\ [][NextRoutes]_vars

(***************************************************************************)
(* SpecLimiter: the rate limiter.  Requests of the clients to the paths    *)
(* arrive at any time, each path checked with its own limits.              *)
(***************************************************************************)
NextLimiter ==
    \/ \E c \in Clients, e \in Endpoints :
          check_rate_limit(c, e, Limits[e].max_requests, Limits[e].window,
                           Limits[e].lockout_duration)
    \/ minute_passes

SpecLimiter == Init /\ [][NextLimiter]_vars

(***************************************************************************)
(* SpecSocket: the socket service.  Clients connect and disconnect, and a  *)
(* connected client sends join_deployment and leave_deployment events,     *)
(* with or without a deployment_id.                                        *)
(***************************************************************************)
NextSocket ==
    \/ \E sid \in Sids : connect(sid)
    \/ \E sid \in DOMAIN connected_clients : disconnect(sid)
    \/ \E sid \in DOMAIN connected_clients, d \in RoomIds \cup {None} :
          join_deployment(sid, d)
    \/ \E sid \in DOMAIN connected_clients, d \in RoomIds \cup {None} :
          leave_deployment(sid, d)

SpecSocket == Init /\ [][NextSocket]_vars

(***************************************************************************)
(* Vocabulary of the properties.                                           *)
(***************************************************************************)
Rows == 1..Len(deployments)

Terminal == {"success", "failed"}

(* the row a started task works on *)
row_of(t) == deployments[tasks[t].deployment_id]

(* the run of task t is over *)
Ended(t) == tasks[t].pc \in {"done", "raised"}

(* the gateway call task t made last has returned *)
CallReturned(t) ==
    /\ tasks[t].issued # <<>>
    /\ Len(tasks[t].step_results) = Len(tasks[t].issued)

(* every request of the call task t made last ended as `outcome` *)
EveryAttempt(t, outcome) ==
    /\ tasks[t].attempts # <<>>
    /\ \A i \in 1..Len(tasks[t].attempts) : tasks[t].attempts[i][1] = outcome

(* the workflow of task t stopped at a step that failed on an answer of     *)
(* kind `outcome` with text `text`                                         *)
StepFailedOn(t, outcome, text) ==
    /\ CallReturned(t)
    /\ ~tasks[t].step_results[Len(tasks[t].step_results)]
    /\ tasks[t].attempts[Len(tasks[t].attempts)] = <<outcome, text>>

(* the step names with a capital first letter *)
Capitalised ==
    [s \in {"package", "install", "approve", "commit"} |->
        CASE s = "package" -> "Package"
          [] s = "install" -> "Install"
          [] s = "approve" -> "Approve"
          [] s = "commit"  -> "Commit"]

(***************************************************************************)
(* C1.  A row is created in status pending, and a pending row goes nowhere *)
(* but to deploying: no step takes it from pending to success or failed.   *)
(***************************************************************************)
C1_PendingThenDeploying ==
    [][\A d \in 1..Len(deployments') :
         /\ d \notin Rows => deployments'[d].deployment_status = "pending"
         /\ (d \in Rows /\ deployments[d].deployment_status = "pending")
               => deployments'[d].deployment_status \in {"pending", "deploying"}]_vars

C1_Witness ==
    \E d \in Rows : deployments[d].deployment_status \in Terminal

(***************************************************************************)
(* C2.  Within one run the gateway calls are started in the order package, *)
(* install, approve, commit, each only when every earlier step returned    *)
(* success; once a step has returned failure no request is sent any more.  *)
(***************************************************************************)
C2_StepOrder ==
    \A t \in Tasks :
        LET issued == tasks[t].issued
            results == tasks[t].step_results
        IN  /\ Len(issued) <= Len(Steps)
            /\ issued = SubSeq(Steps, 1, Len(issued))
            /\ Len(results) \in {Len(issued) - 1, Len(issued)}
            /\ \A i \in 1..Len(results) : i < Len(issued) => results[i]
            /\ (\E i \in 1..Len(results) : ~results[i])
                   => tasks[t].pc \notin {"call", "sleep"}

C2_Witness ==
    \E t \in Tasks :
        /\ Ended(t)
        /\ tasks[t].issued = <<"package", "install", "approve">>
        /\ tasks[t].step_results = <<TRUE, TRUE, FALSE>>

(***************************************************************************)
(* C3.  Scenario A: when all four steps of the run succeed, the run ends   *)
(* with the row in status success, completion_date set and the chaincode   *)
(* active.                                                                 *)
(***************************************************************************)
C3_SuccessfulRun ==
    (tasks[1].pc = "done" /\ tasks[1].step_results = <<TRUE, TRUE, TRUE, TRUE>>)
        => /\ row_of(1).deployment_status = "success"
           /\ row_of(1).completion_date # NoDate
           /\ chaincodes[row_of(1).chaincode_id] = "active"

C3_Witness ==
    /\ tasks[1].pc = "done"
    /\ tasks[1].step_results = <<TRUE, TRUE, TRUE, TRUE>>
    /\ row_of(1).deployment_status = "success"

(***************************************************************************)
(* C4, as claimed.  When step S fails on a 4xx answer with body R the run  *)
(* ends with the row failed and error_message                              *)
(* "Deployment failed at step '<S>': <R>".                                 *)
(***************************************************************************)
C4_Original ==
    \A R \in Bodies :
        (tasks[1].pc = "done" /\ StepFailedOn(1, "client_error", R))
            => /\ row_of(1).deployment_status = "failed"
               /\ row_of(1).error_message =
                     "Deployment failed at step '" \o tasks[1].step \o "': " \o R

(***************************************************************************)
(* C4, amended.  When step S fails on a 4xx answer with body R the run     *)
(* ends with the row failed and error_message                              *)
(* "Deployment failed at step '<S>': <Step> failed: <R>", <Step> being the *)
(* capitalised name of the step.                                           *)
(***************************************************************************)
C4_Amended ==
    \A R \in Bodies :
        (tasks[1].pc = "done" /\ StepFailedOn(1, "client_error", R))
            => /\ row_of(1).deployment_status = "failed"
               /\ row_of(1).error_message =
                     "Deployment failed at step '" \o tasks[1].step \o "': "
                        \o Capitalised[tasks[1].step] \o " failed: " \o R

C4_Witness ==
    /\ tasks[1].pc = "done"
    /\ StepFailedOn(1, "client_error", "invalid sequence")
    /\ row_of(1).error_message =
          "Deployment failed at step 'approve': Approve failed: invalid sequence"

(***************************************************************************)
(* C5.  A run that leaves the row failed has not written the chaincode's   *)
(* status.                                                                 *)
(***************************************************************************)
C5_FailedKeepsChaincode ==
    \A t \in Tasks :
        (Ended(t) /\ ~tasks[t].result.success) => ~tasks[t].activated

(***************************************************************************)
(* C6.  A run writes the chaincode's status active only when its row is    *)
(* already in status success.                                              *)
(***************************************************************************)
C6_ActiveAfterSuccess ==
    [][\A t \in Tasks :
         (~tasks[t].activated /\ tasks'[t].activated)
            => row_of(t).deployment_status = "success"]_vars

(***************************************************************************)
(* C7.  Of the runs started on one row at most one sends gateway requests. *)
(***************************************************************************)
C7_OneRunPerRow ==
    \A t1, t2 \in Tasks :
        (/\ t1 # t2
         /\ tasks[t1].deployment_id # 0
         /\ tasks[t1].deployment_id = tasks[t2].deployment_id)
            => ~(tasks[t1].issued # <<>> /\ tasks[t2].issued # <<>>)

(***************************************************************************)
(* C8.  A row in status success or failed has its completion_date set, and *)
(* no step changes that date.                                              *)
(***************************************************************************)
C8_CompletionDateFinal ==
    [][\A d \in Rows :
         deployments[d].deployment_status \in Terminal
            => /\ deployments[d].completion_date # NoDate
               /\ deployments'[d].completion_date = deployments[d].completion_date]_vars

(***************************************************************************)
(* C9.  A row in status success or failed keeps that status.               *)
(***************************************************************************)
C9_StatusMonotonic ==
    [][\A d \in Rows :
         deployments[d].deployment_status \in Terminal
            => deployments'[d].deployment_status = deployments[d].deployment_status]_vars

(***************************************************************************)
(* C10.  No call sends more than max_retries requests, and a call whose    *)
(* every request ends in a transport error returns only after exactly      *)
(* max_retries requests, with an error that contains                       *)
(* "failed after 3 attempts".                                              *)
(***************************************************************************)
C10_RetryBound ==
    /\ Len(tasks[1].attempts) <= max_retries
    /\ (CallReturned(1) /\ EveryAttempt(1, "transport_error"))
          => /\ Len(tasks[1].attempts) = max_retries
             /\ ~tasks[1].result.success
             /\ Contains(tasks[1].result.error, "failed after 3 attempts")

C10_Witness ==
    /\ CallReturned(1)
    /\ EveryAttempt(1, "transport_error")
    /\ Len(tasks[1].attempts) = 3

(***************************************************************************)
(* C11.  A request answered with a 4xx status is the last request of its   *)
(* call: the call has returned failure, no further request is sent and no  *)
(* wait follows; when the first request is the one answered with a 4xx,    *)
(* the call has made exactly one attempt and no wait.                      *)
(***************************************************************************)
C11_NoRetryOn4xx ==
    \A i \in 1..Len(tasks[1].attempts) :
        tasks[1].attempts[i][1] = "client_error"
            => /\ i = Len(tasks[1].attempts)
               /\ Len(tasks[1].waits) < i
               /\ tasks[1].pc \notin {"call", "sleep"}
               /\ CallReturned(1)
               /\ ~tasks[1].step_results[Len(tasks[1].step_results)]

C11_Witness ==
    /\ CallReturned(1)
    /\ tasks[1].attempts = << <<"client_error", "invalid sequence">> >>
    /\ tasks[1].waits = <<>>
    /\ tasks[1].pc = "result"

(* the sum of a sequence of numbers *)
RECURSIVE SumSeq(_)
SumSeq(q) == IF q = <<>> THEN 0 ELSE Head(q) + SumSeq(Tail(q))

(* the numbers of the attempts of task t's current call that ended in a    *)
(* transport error, in order                                               *)
TransportErrors(t) ==
    SelectSeq([i \in 1..Len(tasks[t].attempts) |-> i],
              LAMBDA i : tasks[t].attempts[i][1] = "transport_error")

(***************************************************************************)
(* C12.  The wait after a transport error on attempt a is 2^a seconds, and *)
(* nothing else is waited for: a call whose k requests so far all ended in *)
(* a transport error, k below max_retries, has waited 2, 4, ..., 2^k       *)
(* seconds; and a call that succeeds on its k-th request after k-1         *)
(* transport errors is reported successful after a total wait of           *)
(* 2 + 4 + ... + 2^(k-1) seconds.                                          *)
(***************************************************************************)
C12_Backoff ==
    LET a == tasks[1]
        k == Len(a.attempts)
    IN  /\ Len(a.waits) <= Len(TransportErrors(1))
        /\ \A j \in 1..Len(a.waits) : a.waits[j] = 2 ^ TransportErrors(1)[j]
        /\ (a.pc = "call" /\ EveryAttempt(1, "transport_error"))
              => /\ k < max_retries
                 /\ Len(a.waits) = k
                 /\ a.attempt = k + 1
        /\ (/\ CallReturned(1)
            /\ k >= 1
            /\ a.attempts[k][1] = "ok"
            /\ \A i \in 1..(k - 1) : a.attempts[i][1] = "transport_error")
              => /\ a.step_results[Len(a.step_results)]
                 /\ Len(a.waits) = k - 1
                 /\ SumSeq(a.waits) = 2 ^ k - 2

C12_Witness ==
    /\ CallReturned(1)
    /\ tasks[1].attempts = << <<"transport_error", "timed out">>,
                              <<"transport_error", "timed out">>,
                              <<"ok", "">> >>
    /\ tasks[1].waits = <<2, 4>>
    /\ tasks[1].result.success

(***************************************************************************)
(* C13.  An install step never fails on an error that says the package is  *)
(* already installed: the step that takes the "already installed" branch   *)
(* is reported as success, the workflow goes on to send the approve        *)
(* request, and the context carries the packageId it held before and the   *)
(* first target peer of the row.                                           *)
(***************************************************************************)
C13_AlreadyInstalled ==
    [][LET a == tasks[1]
           b == tasks'[1]
       IN  /\ (a.pc = "result" /\ a.step = "install" /\ ~a.result.success)
                 => ~Contains(lower(a.result.error), "already installed")
           /\ (~a.context.alreadyInstalled /\ b.context.alreadyInstalled)
                 => /\ a.step = "install"
                    /\ b.step = "approve"
                    /\ b.pc = "call"
                    /\ b.issued = <<"package", "install", "approve">>
                    /\ b.step_results = <<TRUE, TRUE>>
                    /\ b.context.packageId = a.context.packageId
                    /\ b.context.peerEndpoint = row_of(1).target_peers[1]
                    /\ row_of(1).deployment_status = "deploying"]_vars

C13_Witness ==
    /\ tasks[1].context.alreadyInstalled
    /\ tasks[1].step = "commit"
    /\ tasks[1].context.packageId = "basic_1.0:9f2c"
    /\ tasks[1].context.peerEndpoint = "peer0.org1:7051"

(***************************************************************************)
(* C14.  No exception leaves execute_deployment: a run that entered the    *)
(* except clause ends by returning a result, with the row failed and       *)
(* error_message the text of the exception.                                *)
(***************************************************************************)
C14_NeverEscapes ==
    /\ tasks[1].pc # "raised"
    /\ (tasks[1].pc = "done" /\ tasks[1].exception # None)
          => /\ row_of(1).deployment_status = "failed"
             /\ row_of(1).error_message = tasks[1].exception
             /\ tasks[1].result = [success |-> FALSE, error |-> tasks[1].exception]

(***************************************************************************)
(* C15.  Whether or not log_event raises, a run whose four steps succeeded *)
(* ends with the row in status success, and a run with a failing step ends *)
(* with the row failed and error_message the failure of that step.         *)
(***************************************************************************)
C15_AuditNeutral ==
    LET a == tasks[1]
        n == Len(a.step_results)
    IN  Ended(1)
          => /\ a.step_results = <<TRUE, TRUE, TRUE, TRUE>>
                   => row_of(1).deployment_status = "success"
             /\ (n > 0 /\ ~a.step_results[n])
                   => /\ row_of(1).deployment_status = "failed"
                      /\ Contains(row_of(1).error_message,
                                  "Deployment failed at step '" \o a.step \o "'")

(***************************************************************************)
(* C16.  An error of sio.emit does not leave emit_deployment_update: the   *)
(* run returns all the same, and a run whose four steps succeeded ends     *)
(* with the row in status success and a successful result whether or not   *)
(* the emit raised.                                                        *)
(***************************************************************************)
C16_EmitNeverPropagates ==
    /\ tasks[1].emit_failed
          => /\ tasks[1].pc = "done"
             /\ tasks[1].exception = None
    /\ (tasks[1].pc = "done" /\ tasks[1].step_results = <<TRUE, TRUE, TRUE, TRUE>>)
          => /\ row_of(1).deployment_status = "success"
             /\ row_of(1).error_message = None
             /\ tasks[1].result = [success |-> TRUE, error |-> None]

C16_Witness ==
    /\ tasks[1].emit_failed
    /\ tasks[1].pc = "done"
    /\ row_of(1).deployment_status = "success"

(***************************************************************************)
(* C17.  Every status update_deployment_status has made durable comes with *)
(* its audit event: a row in status deploying, success or failed has the   *)
(* event DEPLOYMENT_DEPLOYING, DEPLOYMENT_SUCCESS or DEPLOYMENT_FAILED in   *)
(* the audit log.                                                          *)
(***************************************************************************)
C17_StatusAudited ==
    \A d \in Rows :
        deployments[d].deployment_status \in {"deploying", "success", "failed"}
            => <<d, "DEPLOYMENT_" \o upper(deployments[d].deployment_status)>> \in audit

(***************************************************************************)
(* C18.  create_deployment for a chaincode id that is not stored or whose  *)
(* status is not approved ends with an error and persists nothing: the     *)
(* deployment table and the audit log are as before.  A row is only ever   *)
(* added for a chaincode that is approved.                                 *)
(***************************************************************************)
C18_RejectedCreate ==
    [][/\ Len(deployments') > Len(deployments)
             => LET c == deployments'[Len(deployments')].chaincode_id
                IN  /\ c \in Chaincodes
                    /\ chaincodes[c] = "approved"
                    /\ reply'.error = None
       /\ (/\ reply'.op = "create_deployment"
           /\ reply' # reply
           /\ \/ reply'.chaincode_id \notin Chaincodes
              \/ chaincodes[reply'.chaincode_id] # "approved")
             => /\ reply'.error \in {"Chaincode not found",
                                     "Chaincode must be approved before deployment"}
                /\ deployments' = deployments
                /\ audit' = audit]_vars

C18_Witness ==
    /\ reply = Reply("create_deployment", "cc2",
                     "Chaincode must be approved before deployment", FALSE)
    /\ chaincodes["cc2"] = "uploaded"
    /\ deployments = <<>>
    /\ audit = {}

(***************************************************************************)
(* C19.  Every persisted deployment row has a non-empty target_peers list. *)
(***************************************************************************)
C19_PeersNonEmpty ==
    \A d \in Rows : deployments[d].target_peers # <<>>

(***************************************************************************)
(* C20.  invoke_chaincode and query_chaincode send a request to the        *)
(* gateway only for a chaincode whose status is active.                    *)
(***************************************************************************)
C20_ActiveOnly ==
    (reply.op \in {"invoke_chaincode", "query_chaincode"} /\ reply.sent)
        => chaincodes[reply.chaincode_id] = "active"

(***************************************************************************)
(* C24.  A row with an error_message is in status failed: pending,         *)
(* deploying and success rows carry none.                                  *)
(***************************************************************************)
C24_ErrorOnlyWhenFailed ==
    \A d \in Rows :
        deployments[d].error_message # None
            => deployments[d].deployment_status = "failed"

(***************************************************************************)
(* C25.  While the workflow runs, a packageId the context holds is not     *)
(* overwritten, and the approve request is sent with a packageId that is   *)
(* not None.                                                               *)
(***************************************************************************)
C25_ContextWriteOnce ==
    [][LET a == tasks[1]
           b == tasks'[1]
       IN  /\ (/\ a.pc \in {"call", "sleep"}
               /\ b.pc \in {"call", "sleep"}
               /\ a.context.packageId # None)
                 => b.context.packageId = a.context.packageId
           /\ (b.pc = "call" /\ b.step = "approve")
                 => b.context.packageId # None]_vars

(***************************************************************************)
(* C26.  Attempt a + 1 of a call is never sent without a wait of 2^a       *)
(* seconds after attempt a: a call about to send its n-th request has      *)
(* waited 2, 4, ..., 2^(n-1) seconds.                                      *)
(***************************************************************************)
C26_WaitBeforeEveryRetry ==
    tasks[1].pc = "call"
        => /\ Len(tasks[1].waits) = tasks[1].attempt - 1
           /\ \A j \in 1..Len(tasks[1].waits) : tasks[1].waits[j] = 2 ^ j

(***************************************************************************)
(* C27.  A call whose error ends in "(failed after N attempts)" has sent   *)
(* exactly N requests.                                                     *)
(***************************************************************************)
C27_AttemptsReported ==
    \A n \in 1..max_retries :
        (/\ tasks[1].pc = "result"
         /\ Contains(tasks[1].result.error,
                     "(failed after " \o ToString(n) \o " attempts)"))
            => Len(tasks[1].attempts) = n

(***************************************************************************)
(* C21.  A call of invoke_chaincode or query_chaincode sends at most one   *)
(* request to the gateway: exactly one when it passed its checks, none     *)
(* when it did not; when that request ends in a timeout, a connection      *)
(* error, another exception or a status other than 200, the call returns   *)
(* a failure with the error text, after that one request.                  *)
(***************************************************************************)
C21_SingleRequest ==
    reply.op \in {"invoke_chaincode", "query_chaincode"}
        => /\ reply.posts <= 1
           /\ reply.sent <=> reply.posts = 1
           /\ (reply.sent /\ reply.outcome # "ok")
                 => /\ reply.error # None
                    /\ reply.posts = 1
           /\ (reply.sent /\ reply.outcome = "ok") => reply.error = None

C21_Witness ==
    /\ reply.op = "invoke_chaincode"
    /\ reply.sent
    /\ reply.outcome = "transport_error"
    /\ reply.error = "timed out"
    /\ reply.posts = 1

(***************************************************************************)
(* C22.  The approve route, for a chaincode that exists, sets the status   *)
(* to approved and returns the chaincode without an error, whatever is     *)
(* raised while the auto-deploy block reads the settings, creates the      *)
(* deployment row or schedules its execution.                              *)
(***************************************************************************)
C22_ApprovalNeverFails ==
    [][(/\ tasks' = tasks
        /\ reply'.op = "approve_chaincode"
        /\ reply'.chaincode_id \in Chaincodes)
          => /\ chaincodes'[reply'.chaincode_id] = "approved"
             /\ reply'.error = None
             /\ \A c \in Chaincodes \ {reply'.chaincode_id} :
                    chaincodes'[c] = chaincodes[c]]_vars

C22_Witness ==
    /\ reply = Reply("approve_chaincode", "cc2", None, FALSE)
    /\ chaincodes["cc2"] = "approved"
    /\ Len(deployments) = 1
    /\ deployments[1].chaincode_id = "cc2"
    /\ <<1, "DEPLOYMENT_CREATED">> \notin audit

(***************************************************************************)
(* C28.  Every deployment row a route has persisted has its execution      *)
(* scheduled.                                                              *)
(***************************************************************************)
C28_PersistedIsScheduled ==
    \A d \in Rows : d \in scheduled

(***************************************************************************)
(* C23.  A run of execute_deployment that has started on a row and is not  *)
(* interrupted comes to its end, and the row is then in status success or  *)
(* failed: no run stays in deploying for ever.                             *)
(***************************************************************************)
C23_RunTerminates ==
    (tasks[1].pc # "idle")
        ~> (Ended(1) /\ row_of(1).deployment_status \in Terminal)

C23_Witness ==
    /\ tasks[1].pc = "done"
    /\ Len(tasks[1].attempts) = max_retries
    /\ tasks[1].waits = <<2, 4>>
    /\ row_of(1).deployment_status = "failed"

(***************************************************************************)
(* C29.  For one client and path: a request that finds no lockout and      *)
(* fewer than max_requests recorded requests inside the window is allowed; *)
(* a request that is rejected is answered 429 and leaves a lockout in      *)
(* force; while a lockout is in force every request is rejected and the    *)
(* lockout stays as it is; and a rejected request is not recorded, only an *)
(* allowed one is.                                                         *)
(***************************************************************************)
C29_RateLimit ==
    [][\A c \in Clients, e \in Endpoints :
         LET k == <<c, e>>
             kept == cleanup_old_requests(requests[k], now, Limits[e].window)
         IN  (/\ now' = now
              /\ verdict'.client = c
              /\ verdict'.endpoint = e)
               => /\ verdict'.status_code \in {200, 429}
                  /\ (~is_locked_out(k, now) /\ Len(kept) < Limits[e].max_requests)
                        => verdict'.status_code = 200
                  /\ verdict'.status_code = 429
                        => /\ k \in DOMAIN lockouts'
                           /\ now < lockouts'[k]
                           /\ requests'[k] \in {requests[k], kept}
                  /\ is_locked_out(k, now)
                        => /\ verdict'.status_code = 429
                           /\ lockouts' = lockouts
                  /\ verdict'.status_code = 200
                        => requests'[k] = Append(kept, now)]_vars

(***************************************************************************)
(* C30.  For every deployment room, get_room_members gives the number of   *)
(* connected clients that have joined the room and not left it since.      *)
(***************************************************************************)
C30_RoomMembers ==
    \A d \in RoomIds :
        get_room_members(room_name(d)) =
            Cardinality({sid \in DOMAIN connected_clients :
                            <<sid, room_name(d)>> \in sio_rooms})

====
